---- MODULE Spec2Model ----
(***************************************************************************)
(* Model of stack-share-to-ftp: the ftp-srv FileSystem implemented on the  *)
(* STACK shared-folder HTTP API (src/src/stack-file-system.ts), the        *)
(* attribute adapter (src/src/stack-stats.ts) and the login hook           *)
(* (src/unnamed/part_000, the program's index.ts).                         *)
(*                                                                         *)
(* Strings are sequences of characters (one-character TLA+ strings); a     *)
(* fixed literal such as "https://" is kept as one element.  Every await   *)
(* on the remote API is a suspension point: the request is issued by one   *)
(* action and its answer is handled by another.                            *)
(***************************************************************************)
EXTENDS Integers, Sequences, FiniteSets, TLC

VARIABLES
  login,    \* per connection: what the 'login' handler did (none/pending/resolved/rejected)
  loginAnswer, \* per connection: the answer to its latest login request
  fs,       \* per connection: the StackFileSystem handed to ftp-srv, or Null
  pc,       \* per connection: "idle", or the await the connection's call is suspended at
  frame,    \* per connection: the local variables of the suspended call
  remote,   \* per connection: the number of records the listed remote directory holds
  reqs,     \* per connection: the remote requests issued by the current (or last) call
  last      \* per connection: the current (or last) call, its arguments and its outcome

vars == <<login, loginAnswer, fs, pc, frame, remote, reqs, last>>

----------------------------------------------------------------------------
(* Bounds of the model *)

\* Remote directories hold up to MaxPages full pages plus a remainder.
MaxPages == 2

\* At most MaxFails page requests of one list call are answered with a failure.
MaxFails == 1

----------------------------------------------------------------------------
(* Values *)

Conns == {"c1", "c2"}

Null == [tag |-> "null"]

\* The JavaScript value undefined (an omitted optional argument).
Undefined == <<"<undefined>">>

Slash == "/"

\* The directory sentinel of the STACK API.
DirectoryMime == "httpd/unix-directory"

\* FTP user names and passwords tried at login.
Usernames == { <<"s", "@", "d">>, <<"t", "@", "d", ".", "e">> }
Passwords == { "pw" }

\* Answers of the STACK API to the login request.
LoginStatuses == {200, 204, 401}

\* HTTP statuses of a failed page request.
ErrorStatuses == {500}

\* The cookies an answer of the STACK API sets after the login (Set-Cookie):
\* none, or a refreshed one.
SetCookies == { {}, {[key |-> "sid", value |-> "v3"]} }

\* Answers of the STACK API to a download or an upload request.
TransferStatuses == {200, 404}

\* Path arguments the FTP client sends.
FileNames ==
  { <<"a">>,
    <<".", ".">>,
    <<".", "/", ".", ".">>,
    <<"/", "a">>,
    <<"a", "/">>,
    <<"/", "a", "/", "b", ".", "t", "x", "t">> }

OptFileNames == FileNames \cup {Undefined}

\* New names the FTP client sends with a rename.
RenameTargets == { <<"b">>, <<"/", "a">> }

Modes == {"644"}

\* Record counts of the remote directories.
Remainders == {0, 37}

----------------------------------------------------------------------------
(* path.posix (Node.js), as used by StackFileSystem *)

RECURSIVE Segments(_)
\* String.prototype.split('/'): the segments between separators.
Segments(p) ==
  IF p = <<>> THEN << <<>> >>
  ELSE LET rest == Segments(Tail(p))
       IN  IF Head(p) = Slash
           THEN << <<>> >> \o rest
           ELSE << <<Head(p)>> \o Head(rest) >> \o Tail(rest)

RECURSIVE JoinSegments(_)
JoinSegments(segs) ==
  IF segs = <<>> THEN <<>>
  ELSE IF Len(segs) = 1 THEN segs[1]
  ELSE segs[1] \o <<Slash>> \o JoinSegments(Tail(segs))

RECURSIVE normalizeString(_, _, _)
\* Resolves '.' and '..' segments and drops empty ones; res is the result so far.
normalizeString(segs, allowAboveRoot, res) ==
  IF segs = <<>> THEN res
  ELSE LET seg == Head(segs)
           next ==
             IF seg = <<>> \/ seg = <<".">> THEN res
             ELSE IF seg = <<".", ".">>
               THEN IF res # <<>> /\ res[Len(res)] # <<".", ".">>
                      THEN SubSeq(res, 1, Len(res) - 1)
                    ELSE IF allowAboveRoot THEN Append(res, seg)
                    ELSE res
             ELSE Append(res, seg)
       IN  normalizeString(Tail(segs), allowAboveRoot, next)

normalize(p) ==
  IF p = <<>> THEN <<".">>
  ELSE LET isAbsolute == p[1] = Slash
           trailingSeparator == p[Len(p)] = Slash
           body == JoinSegments(normalizeString(Segments(p), ~isAbsolute, <<>>))
       IN  IF body = <<>>
           THEN IF isAbsolute THEN <<Slash>>
                ELSE IF trailingSeparator THEN <<".", Slash>> ELSE <<".">>
           ELSE (IF isAbsolute THEN <<Slash>> ELSE <<>>) \o body
                \o (IF trailingSeparator THEN <<Slash>> ELSE <<>>)

\* validateString: path.posix.join throws a TypeError on a non-string argument.
joinThrows(a, b) == a = Undefined \/ b = Undefined

\* path.posix.join(a, b) for string arguments.
posixJoin(a, b) ==
  LET joined == IF a = <<>> THEN b
                ELSE IF b = <<>> THEN a
                ELSE a \o <<Slash>> \o b
  IN  IF joined = <<>> THEN <<".">> ELSE normalize(joined)

----------------------------------------------------------------------------
(* String helpers of JavaScript *)

RECURSIVE indexOf(_, _)
\* String.prototype.indexOf: the 0-based index of the first ch, or -1.
indexOf(s, ch) ==
  IF s = <<>> THEN -1
  ELSE IF Head(s) = ch THEN 0
  ELSE LET r == indexOf(Tail(s), ch) IN IF r = -1 THEN -1 ELSE r + 1

RECURSIVE lastIndexOf(_, _)
\* String.prototype.lastIndexOf: the 0-based index of the last ch, or -1.
lastIndexOf(s, ch) ==
  IF s = <<>> THEN -1
  ELSE IF s[Len(s)] = ch THEN Len(s) - 1
  ELSE lastIndexOf(SubSeq(s, 1, Len(s) - 1), ch)

\* String.prototype.substr(start, length) for start >= 0; a length <= 0 gives ''.
substr(s, start, length) ==
  IF length <= 0 THEN <<>> ELSE SubSeq(s, start + 1, start + length)

\* String.prototype.substr(start) for start >= 0: the rest of the string.
substrFrom(s, start) == SubSeq(s, start + 1, Len(s))

----------------------------------------------------------------------------
(* The STACK API listing and the attribute adapter (stack-stats.ts) *)

maxFiles == 100

\* Record k (1-based) of a remote directory, as the listing endpoint returns it.
StackApiStats(k) ==
  [ fileId   |-> k,
    path     |-> IF k % 2 = 0 THEN <<"/", "a">> ELSE <<"/", "a", "/", "f">>,
    mimetype |-> IF k % 2 = 0 THEN DirectoryMime
                 ELSE IF k % 3 = 0 THEN "inode/directory" ELSE "text/plain",
    fileSize |-> k,
    mtime    |-> k ]

\* new StackStats(stat)
StackStats(stat) ==
  [ mimetype |-> stat.mimetype,
    ino      |-> stat.fileId,
    size     |-> stat.fileSize,
    mtime    |-> stat.mtime * 1000,
    name     |-> substrFrom(stat.path, lastIndexOf(stat.path, Slash) + 1) ]

\* An adapter that takes everything but plain text for a directory.
isDirectoryUnlessText(stats) == stats.mimetype # "text/plain"

isDirectory(stats) == stats.mimetype = DirectoryMime

isFile(stats) == ~isDirectory(stats)

isBlockDevice(stats) == FALSE

isCharacterDevice(stats) == FALSE

isSymbolicLink(stats) == FALSE

isFIFO(stats) == FALSE

isSocket(stats) == FALSE

\* res.body.nodes of a listing of a directory of n records for the window
\* (offset, limit).
Nodes(n, offset, limit) ==
  LET hi == IF offset + limit < n THEN offset + limit ELSE n
  IN  [j \in 1..(IF hi > offset THEN hi - offset ELSE 0) |-> StackApiStats(offset + j)]

\* res.body.nodes.map(node => new StackStats(node))
MapStats(nodes) == [j \in 1..Len(nodes) |-> StackStats(nodes[j])]

DirSizes == { p * maxFiles + r : p \in 0..MaxPages, r \in Remainders }

----------------------------------------------------------------------------
(* State after construction: no connection has logged in. *)

Init ==
  /\ login  = [c \in Conns |-> "none"]
  /\ loginAnswer = [c \in Conns |-> [kind |-> "none"]]
  /\ fs     = [c \in Conns |-> Null]
  /\ pc     = [c \in Conns |-> "idle"]
  /\ frame  = [c \in Conns |-> Null]
  /\ remote = [c \in Conns |-> 0]
  /\ reqs   = [c \in Conns |-> <<>>]
  /\ last   = [c \in Conns |-> [op |-> "none", outcome |-> "none"]]

\* The call returned (or its promise resolved) with result.
Returned(c, op, args, result) ==
  last' = [last EXCEPT ![c] =
    [op |-> op, args |-> args, cwd |-> fs[c].workingDir, outcome |-> "ok", result |-> result]]

\* The call threw (or its promise rejected) with error.
Threw(c, op, args, error) ==
  last' = [last EXCEPT ![c] =
    [op |-> op, args |-> args, cwd |-> fs[c].workingDir, outcome |-> "error", error |-> error]]

\* Answers of the remote API to a request.
Pending == [kind |-> "pending"]

TransportError == [kind |-> "transport_error"]

HttpAnswer(statusCode) == [kind |-> "http", statusCode |-> statusCode]

NotImplemented == "Method not implemented."

TypeError == "TypeError"

----------------------------------------------------------------------------
(* StackFileSystem.create and the 'login' handler *)

\* request.jar(): the new, empty cookie jar of connection c's create call. A
\* request is given the jar itself (by reference), so requests name the jar by
\* its id and the jar's cookies are held where the jar is held.
NewJar(c) == [id |-> c, cookies |-> {}]

\* The cookies of a jar after it stored the cookies an answer set: a cookie
\* replaces the one of the same key.
setCookie(held, cookies) ==
  {k \in held : \A n \in cookies : n.key # k.key} \cup cookies

\* The base URL of the shared folder API for an FTP user name <SHARE>@<DOMAIN>.
BaseUrl(username) ==
  LET at     == indexOf(username, "@")
      share  == substr(username, 0, at)
      domain == substrFrom(username, at + 1)
  IN  <<"https://">> \o domain \o <<"/public-share/">> \o share \o <<"/">>

\* A login check that accepts every 2xx answer.
loginFailedAbove2xx(statusCode) == statusCode < 200 \/ statusCode >= 300

\* The check of the login answer.
loginFailed(statusCode) == statusCode # 200

\* new StackFileSystem(connection, baseUrl, csrfToken, cookieJar)
NewStackFileSystem(c, baseUrl, csrfToken, cookieJar) ==
  [ tag        |-> "StackFileSystem",
    connection |-> c,
    root       |-> <<Slash>>,
    workingDir |-> <<Slash>>,
    baseUrl    |-> baseUrl,
    csrfToken  |-> csrfToken,
    cookieJar  |-> cookieJar ]

\* ftp-srv emits 'login'; the handler calls create, which posts the password
\* and awaits the answer.
LoginRequest(c, username, password) ==
  /\ pc[c] = "idle"
  /\ login[c] \in {"none", "rejected"}
  /\ login' = [login EXCEPT ![c] = "pending"]
  /\ loginAnswer' = [loginAnswer EXCEPT ![c] = Pending]
  /\ pc' = [pc EXCEPT ![c] = "create"]
  /\ frame' = [frame EXCEPT ![c] =
       [username |-> username, baseUrl |-> BaseUrl(username), cookieJar |-> NewJar(c)]]
  /\ reqs' = [reqs EXCEPT ![c] =
       << [ baseUrl |-> BaseUrl(username), url |-> <<"info/">>, method |-> "POST",
            jar |-> NewJar(c).id, form |-> [password |-> password],
            answer |-> Pending ] >>]
  /\ last' = [last EXCEPT ![c] =
       [op |-> "create", args |-> <<username, password>>, outcome |-> "pending"]]
  /\ UNCHANGED <<fs, remote>>

\* The login request is answered: create returns the file system or throws,
\* and the handler resolves or rejects the login.
LoginResponse(c, statusCode, grant) ==
  /\ pc[c] = "create"
  /\ pc' = [pc EXCEPT ![c] = "idle"]
  /\ reqs' = [reqs EXCEPT ![c][1].answer = HttpAnswer(statusCode)]
  /\ loginAnswer' = [loginAnswer EXCEPT ![c] = HttpAnswer(statusCode)]
  /\ frame' = [frame EXCEPT ![c] = Null]
  /\ IF loginFailed(statusCode)
       THEN /\ login' = [login EXCEPT ![c] = "rejected"]
            /\ last' = [last EXCEPT ![c].outcome = "error"]
            /\ UNCHANGED fs
       ELSE /\ login' = [login EXCEPT ![c] = "resolved"]
            /\ fs' = [fs EXCEPT ![c] =
                 NewStackFileSystem(c, frame[c].baseUrl, grant.csrf,
                   [frame[c].cookieJar EXCEPT !.cookies = setCookie(@, {grant.cookie})])]
            /\ last' = [last EXCEPT ![c].outcome = "ok"]
  /\ UNCHANGED remote

\* The login request fails in transport: the promisified request rejects.
LoginTransportError(c) ==
  /\ pc[c] = "create"
  /\ pc' = [pc EXCEPT ![c] = "idle"]
  /\ reqs' = [reqs EXCEPT ![c][1].answer = TransportError]
  /\ loginAnswer' = [loginAnswer EXCEPT ![c] = TransportError]
  /\ frame' = [frame EXCEPT ![c] = Null]
  /\ login' = [login EXCEPT ![c] = "rejected"]
  /\ last' = [last EXCEPT ![c].outcome = "error"]
  /\ UNCHANGED <<fs, remote>>

\* The request library stores the cookies an answer sets in the jar the
\* request was given (jar: this.cookieJar).
storeCookies(c, cookies) ==
  [fs EXCEPT ![c].cookieJar.cookies = setCookie(@, cookies)]

\* A file system call can start: the connection is logged in and no call of
\* it is in progress (ftp-srv runs one command of a connection at a time).
Ready(c) == pc[c] = "idle" /\ fs[c] # Null

----------------------------------------------------------------------------
(* Navigation: cwd, currentDirectory, get, chdir *)

cwd(c) == fs[c].workingDir

\* A currentDirectory that falls back to the root.
currentDirectoryResets(c) ==
  /\ Ready(c)
  /\ fs' = [fs EXCEPT ![c].workingDir = fs[c].root]
  /\ Returned(c, "currentDirectory", <<>>, fs[c].root)
  /\ reqs' = [reqs EXCEPT ![c] = <<>>]
  /\ UNCHANGED <<login, loginAnswer, pc, frame, remote>>

currentDirectory(c) ==
  /\ Ready(c)
  /\ Returned(c, "currentDirectory", <<>>, cwd(c))
  /\ reqs' = [reqs EXCEPT ![c] = <<>>]
  /\ UNCHANGED <<login, loginAnswer, fs, pc, frame, remote>>

\* The get of the line that is commented out: it throws.
getNotImplemented(c, fileName) ==
  /\ Ready(c)
  /\ Threw(c, "get", <<fileName>>, NotImplemented)
  /\ reqs' = [reqs EXCEPT ![c] = <<>>]
  /\ UNCHANGED <<login, loginAnswer, fs, pc, frame, remote>>

get(c, fileName) ==
  /\ Ready(c)
  /\ IF joinThrows(cwd(c), fileName)
       THEN Threw(c, "get", <<fileName>>, TypeError)
       ELSE Returned(c, "get", <<fileName>>, [isDirectory |-> TRUE])
  /\ reqs' = [reqs EXCEPT ![c] = <<>>]
  /\ UNCHANGED <<login, loginAnswer, fs, pc, frame, remote>>

\* A working directory that is put together without resolving it.
chdirPathUnresolved(c, fileName) == fs[c].root \o fileName

\* The path chdir makes the working directory.
chdirPath(c, fileName) == posixJoin(fs[c].root, fileName)

\* A chdir that asks the remote API for the directory before it enters it.
chdirVerifying(c, fileName) ==
  /\ Ready(c)
  /\ ~joinThrows(fs[c].root, fileName)
  /\ fs' = [fs EXCEPT ![c].workingDir = chdirPath(c, fileName)]
  /\ Returned(c, "chdir", <<fileName>>, chdirPath(c, fileName))
  /\ reqs' = [reqs EXCEPT ![c] =
       << [ baseUrl |-> fs[c].baseUrl, url |-> <<"list">>, method |-> "GET",
            jar |-> fs[c].cookieJar.id, answer |-> Pending ] >>]
  /\ UNCHANGED <<login, loginAnswer, pc, frame, remote>>

\* A chdir whose working directory is one value for all file systems.
chdirShared(c, fileName) ==
  /\ Ready(c)
  /\ ~joinThrows(fs[c].root, fileName)
  /\ fs' = [d \in Conns |->
              IF fs[d] = Null THEN fs[d]
              ELSE [fs[d] EXCEPT !.workingDir = chdirPath(c, fileName)]]
  /\ Returned(c, "chdir", <<fileName>>, chdirPath(c, fileName))
  /\ reqs' = [reqs EXCEPT ![c] = <<>>]
  /\ UNCHANGED <<login, loginAnswer, pc, frame, remote>>

chdir(c, fileName) ==
  /\ Ready(c)
  /\ IF joinThrows(fs[c].root, fileName)
       THEN /\ Threw(c, "chdir", <<fileName>>, TypeError)
            /\ UNCHANGED fs
       ELSE /\ fs' = [fs EXCEPT ![c].workingDir = chdirPath(c, fileName)]
            /\ Returned(c, "chdir", <<fileName>>, chdirPath(c, fileName))
  /\ reqs' = [reqs EXCEPT ![c] = <<>>]
  /\ UNCHANGED <<login, loginAnswer, pc, frame, remote>>

----------------------------------------------------------------------------
(* list: the pagination loop *)

\* The path a call resolves its argument to.
clientPath(c, fileName) == posixJoin(cwd(c), fileName)

\* The offset of page i.
pageOffset(i) == i * maxFiles

\* A listing request that is not given the cookie jar.
ListRequestWithoutJar(c, dir, i) ==
  [ baseUrl |-> fs[c].baseUrl, url |-> <<"list">>, method |-> "GET",
    jar |-> "none",
    qs |-> [ type |-> "folder", offset |-> i * maxFiles, limit |-> maxFiles,
             sortBy |-> "default", order |-> "asc", dir |-> dir ],
    answer |-> Pending ]

\* The listing request for page i of directory dir.
ListRequest(c, dir, i) ==
  [ baseUrl |-> fs[c].baseUrl, url |-> <<"list">>, method |-> "GET",
    jar |-> fs[c].cookieJar.id,
    qs |-> [ type |-> "folder", offset |-> pageOffset(i), limit |-> maxFiles,
             sortBy |-> "default", order |-> "asc", dir |-> dir ],
    answer |-> Pending ]

\* A loop that goes on until a page is empty.
loopAgainUntilEmpty(fetched) == fetched > 0

\* The loop condition: another page is requested.
loopAgain(fetched) == fetched = maxFiles

\* A concatenation that puts the new page first.
concatNodesPrepend(nodes, page) == MapStats(page) \o nodes

\* nodes.concat(page mapped through StackStats)
concatNodes(nodes, page) == nodes \o MapStats(page)

\* The answer to the pending (last) request of the call is recorded.
Answered(c, answer) == [reqs[c] EXCEPT ![Len(reqs[c])].answer = answer]

\* The number of page requests of the call answered with an error status.
Failures(c) ==
  Cardinality({j \in DOMAIN reqs[c] :
     reqs[c][j].answer.kind = "http" /\ reqs[c][j].answer.statusCode \in ErrorStatuses})

\* The end of one loop iteration with the locals (i, nodes, fetched): the
\* next page is requested, or list returns nodes.
ListIterate(c, answer, i, nodes, fetched) ==
  IF loopAgain(fetched)
    THEN /\ frame' = [frame EXCEPT ![c] =
              [clientPath |-> frame[c].clientPath, i |-> i, nodes |-> nodes,
               fetched |-> fetched]]
         /\ reqs' = [reqs EXCEPT ![c] =
              Append(Answered(c, answer),
                     ListRequest(c, frame[c].clientPath, i))]
         /\ UNCHANGED <<pc, last>>
    ELSE /\ frame' = [frame EXCEPT ![c] = Null]
         /\ reqs' = [reqs EXCEPT ![c] = Answered(c, answer)]
         /\ pc' = [pc EXCEPT ![c] = "idle"]
         /\ Returned(c, "list", last[c].args, nodes)

\* list is called for a remote directory that holds n records: the path is
\* resolved and the first page is requested.
list(c, fileName, n) ==
  /\ Ready(c)
  /\ IF joinThrows(cwd(c), fileName)
       THEN /\ Threw(c, "list", <<fileName>>, TypeError)
            /\ reqs' = [reqs EXCEPT ![c] = <<>>]
            /\ UNCHANGED <<pc, frame, remote>>
       ELSE /\ pc' = [pc EXCEPT ![c] = "list"]
            /\ frame' = [frame EXCEPT ![c] =
                 [clientPath |-> clientPath(c, fileName), i |-> 0, nodes |-> <<>>,
                  fetched |-> 0]]
            /\ remote' = [remote EXCEPT ![c] = n]
            /\ reqs' = [reqs EXCEPT ![c] =
                 << ListRequest(c, clientPath(c, fileName), 0) >>]
            /\ last' = [last EXCEPT ![c] =
                 [op |-> "list", args |-> <<fileName>>, cwd |-> cwd(c),
                  outcome |-> "pending"]]
  /\ UNCHANGED <<login, loginAnswer, fs>>

\* The pending page request is answered with the records of its window.
ListPage(c, cookies) ==
  /\ pc[c] = "list"
  /\ fs' = storeCookies(c, cookies)
  /\ LET req  == reqs[c][Len(reqs[c])]
         page == Nodes(remote[c], req.qs.offset, req.qs.limit)
         answer == [kind |-> "http", statusCode |-> 200, nodes |-> page]
     IN  ListIterate(c, answer, frame[c].i + 1,
                     concatNodes(frame[c].nodes, page), Len(page))
  /\ UNCHANGED <<login, loginAnswer, remote>>

\* The pending page request is answered with an error status: the body has
\* no nodes, and the locals keep their values.
ListHttpError(c, statusCode, cookies) ==
  /\ pc[c] = "list"
  /\ Failures(c) < MaxFails
  /\ fs' = storeCookies(c, cookies)
  /\ ListIterate(c, HttpAnswer(statusCode), frame[c].i, frame[c].nodes,
                 frame[c].fetched)
  /\ UNCHANGED <<login, loginAnswer, remote>>

\* The pending page request fails in transport: the promisified request
\* rejects and list throws.
ListTransportError(c) ==
  /\ pc[c] = "list"
  /\ pc' = [pc EXCEPT ![c] = "idle"]
  /\ frame' = [frame EXCEPT ![c] = Null]
  /\ reqs' = [reqs EXCEPT ![c] = Answered(c, TransportError)]
  /\ Threw(c, "list", last[c].args, "RequestError")
  /\ UNCHANGED <<login, loginAnswer, fs, remote>>

----------------------------------------------------------------------------
(* write and read: the transfer requests *)

write(c, fileName) ==
  /\ Ready(c)
  /\ IF joinThrows(cwd(c), fileName)
       THEN /\ Threw(c, "write", <<fileName>>, TypeError)
            /\ reqs' = [reqs EXCEPT ![c] = <<>>]
       ELSE /\ reqs' = [reqs EXCEPT ![c] =
                 << [ baseUrl |-> fs[c].baseUrl,
                      url |-> <<"upload">> \o clientPath(c, fileName),
                      method |-> "PUT", jar |-> fs[c].cookieJar.id,
                      headers |-> [CsrfToken |-> fs[c].csrfToken],
                      answer |-> Pending ] >>]
            /\ Returned(c, "write", <<fileName>>,
                 [stream |-> "PassThrough", clientPath |-> clientPath(c, fileName),
                  state |-> "open"])
  /\ pc' = [pc EXCEPT ![c] = IF joinThrows(cwd(c), fileName) THEN "idle" ELSE "write"]
  /\ UNCHANGED <<login, loginAnswer, fs, frame, remote>>

\* The FTP client ends its upload: the PassThrough stream finishes, which is
\* all that ftp-srv waits for before it reports the transfer as complete.
WriteFinish(c) ==
  /\ pc[c] = "write"
  /\ pc' = [pc EXCEPT ![c] = "idle"]
  /\ last' = [last EXCEPT ![c].result.state = "finish"]
  /\ UNCHANGED <<login, loginAnswer, fs, frame, remote, reqs>>

\* The upload request is answered, while the stream is written or after it
\* finished: the answer goes to the Request object the stream is piped into,
\* which no code listens to; the returned stream is not touched.
WriteResponse(c, statusCode, cookies) ==
  /\ fs[c] # Null
  /\ last[c].op = "write" /\ last[c].outcome = "ok"
  /\ reqs[c][1].answer = Pending
  /\ reqs' = [reqs EXCEPT ![c][1].answer = HttpAnswer(statusCode)]
  /\ fs' = storeCookies(c, cookies)
  /\ UNCHANGED <<login, loginAnswer, pc, frame, remote, last>>

\* The upload request fails in transport: the Request object emits 'error';
\* pipe() forwards no error to its source, so the returned stream stays as
\* it is.
WriteTransportError(c) ==
  /\ fs[c] # Null
  /\ last[c].op = "write" /\ last[c].outcome = "ok"
  /\ reqs[c][1].answer = Pending
  /\ reqs' = [reqs EXCEPT ![c][1].answer = TransportError]
  /\ UNCHANGED <<login, loginAnswer, fs, pc, frame, remote, last>>

read(c, fileName) ==
  /\ Ready(c)
  /\ IF joinThrows(cwd(c), fileName)
       THEN /\ Threw(c, "read", <<fileName>>, TypeError)
            /\ reqs' = [reqs EXCEPT ![c] = <<>>]
       ELSE /\ reqs' = [reqs EXCEPT ![c] =
                 << [ baseUrl |-> fs[c].baseUrl, url |-> <<"download">>,
                      method |-> "POST", jar |-> fs[c].cookieJar.id,
                      form |-> [CsrfToken |-> fs[c].csrfToken,
                                paths |-> clientPath(c, fileName)],
                      answer |-> Pending ] >>]
            /\ Returned(c, "read", <<fileName>>, [stream |-> "Request", state |-> "open"])
  /\ pc' = [pc EXCEPT ![c] = IF joinThrows(cwd(c), fileName) THEN "idle" ELSE "read"]
  /\ UNCHANGED <<login, loginAnswer, fs, frame, remote>>

\* The download request is answered: the returned stream is the Request
\* itself, which streams the body of the answer to its reader and ends,
\* whatever the status of the answer is.
ReadResponse(c, statusCode, cookies) ==
  /\ pc[c] = "read"
  /\ pc' = [pc EXCEPT ![c] = "idle"]
  /\ reqs' = [reqs EXCEPT ![c][1].answer = HttpAnswer(statusCode)]
  /\ last' = [last EXCEPT ![c].result =
       [stream |-> "Request", state |-> "end",
        data |-> HttpAnswer(statusCode)]]
  /\ fs' = storeCookies(c, cookies)
  /\ UNCHANGED <<login, loginAnswer, frame, remote>>

\* The download request fails in transport: the returned stream emits 'error'.
ReadTransportError(c) ==
  /\ pc[c] = "read"
  /\ pc' = [pc EXCEPT ![c] = "idle"]
  /\ reqs' = [reqs EXCEPT ![c][1].answer = TransportError]
  /\ last' = [last EXCEPT ![c].result = [stream |-> "Request", state |-> "error"]]
  /\ UNCHANGED <<login, loginAnswer, fs, frame, remote>>

----------------------------------------------------------------------------
(* The operations that are not implemented *)

\* An operation that asks the remote API and reports success.
UnsupportedForwarded(c, op, args, paths) ==
  /\ Ready(c)
  /\ Returned(c, op, args, TRUE)
  /\ reqs' = [reqs EXCEPT ![c] =
       << [ baseUrl |-> fs[c].baseUrl, url |-> <<op>>, method |-> "POST",
            jar |-> fs[c].cookieJar.id, answer |-> Pending ] >>]
  /\ UNCHANGED <<login, loginAnswer, fs, pc, frame, remote>>

\* The call resolves its path arguments for the log and throws.
Unsupported(c, op, args, paths) ==
  /\ Ready(c)
  /\ IF \E j \in DOMAIN paths : joinThrows(cwd(c), paths[j])
       THEN Threw(c, op, args, TypeError)
       ELSE Threw(c, op, args, NotImplemented)
  /\ reqs' = [reqs EXCEPT ![c] = <<>>]
  /\ UNCHANGED <<login, loginAnswer, fs, pc, frame, remote>>

delete(c, fileName) == Unsupported(c, "delete", <<fileName>>, <<fileName>>)

mkdir(c, fileName) == Unsupported(c, "mkdir", <<fileName>>, <<fileName>>)

rename(c, from, to) == Unsupported(c, "rename", <<from, to>>, <<from, to>>)

chmod(c, fileName, mode) == Unsupported(c, "chmod", <<fileName, mode>>, <<fileName>>)

getUniqueName(c) == Unsupported(c, "getUniqueName", <<>>, <<>>)

----------------------------------------------------------------------------
(* The specification: one FTP connection *)

\* What a successful login answer grants: the CSRF token of its header and
\* the session cookie it sets.
SessionGrants == { [csrf |-> "tok1", cookie |-> [key |-> "sid", value |-> "v1"]] }

Step(c) ==
  \/ \E u \in Usernames, p \in Passwords : LoginRequest(c, u, p)
  \/ \E s \in LoginStatuses, g \in SessionGrants : LoginResponse(c, s, g)
  \/ LoginTransportError(c)
  \/ currentDirectory(c)
  \/ \E f \in FileNames : get(c, f)
  \/ \E f \in OptFileNames : chdir(c, f)
  \/ \E f \in OptFileNames, n \in DirSizes : list(c, f, n)
  \/ \E k \in SetCookies : ListPage(c, k)
  \/ \E s \in ErrorStatuses, k \in SetCookies : ListHttpError(c, s, k)
  \/ ListTransportError(c)
  \/ \E f \in FileNames : write(c, f)
  \/ WriteFinish(c)
  \/ \E s \in TransferStatuses, k \in SetCookies : WriteResponse(c, s, k)
  \/ WriteTransportError(c)
  \/ \E f \in FileNames : read(c, f)
  \/ \E s \in TransferStatuses, k \in SetCookies : ReadResponse(c, s, k)
  \/ ReadTransportError(c)
  \/ \E f \in FileNames : delete(c, f)
  \/ \E f \in FileNames : mkdir(c, f)
  \/ \E f \in FileNames, t \in RenameTargets : rename(c, f, t)
  \/ \E f \in FileNames, m \in Modes : chmod(c, f, m)
  \/ getUniqueName(c)

Next == Step("c1")

Spec == Init /\ [][Next]_vars

\* What the remote API may grant the logins of two clients.
ClientGrants ==
  { [csrf |-> "tok1", cookie |-> [key |-> "sid", value |-> "v1"]],
    [csrf |-> "tok2", cookie |-> [key |-> "sid", value |-> "v2"]] }

\* A step of one of several FTP clients: each login makes its own file system.
ClientStep(c) ==
  \/ \E u \in Usernames : LoginRequest(c, u, "pw")
  \/ \E g \in ClientGrants : LoginResponse(c, 200, g)
  \/ \E f \in {<<"a">>, <<".", ".">>} : chdir(c, f)
  \/ list(c, <<".", ".">>, 37)
  \/ \E k \in SetCookies : ListPage(c, k)

NextClients == \E c \in Conns : ClientStep(c)

SpecClients == Init /\ [][NextClients]_vars

----------------------------------------------------------------------------
(* Properties *)

\* The connections that have a list call in progress or as their last call.
IsList(c) == last[c].op = "list"

\* The call of c ended and returned.
Ok(c, op) == last[c].op = op /\ last[c].outcome = "ok"

\* The indices of the requests of c's call that were answered with records.
PageIndices(c) ==
  {j \in DOMAIN reqs[c] : reqs[c][j].answer.kind = "http" /\ reqs[c][j].answer.statusCode = 200}

\* The indices of the requests of c's call that failed.
FailedIndices(c) ==
  {j \in DOMAIN reqs[c] :
     \/ reqs[c][j].answer.kind = "transport_error"
     \/ reqs[c][j].answer.kind = "http" /\ reqs[c][j].answer.statusCode # 200}

RECURSIVE FetchedRecords(_, _)
\* The records of the pages answered to requests 1..j of c's call, in the
\* order the pages were fetched.
FetchedRecords(c, j) ==
  IF j = 0 THEN <<>>
  ELSE FetchedRecords(c, j - 1)
       \o (IF j \in PageIndices(c) THEN reqs[c][j].answer.nodes ELSE <<>>)

\* The sizes of the pages fetched by c's call, in fetch order.
PageSizes(c) ==
  LET idx == PageIndices(c)
      RECURSIVE sizes(_)
      sizes(j) == IF j = 0 THEN <<>>
                  ELSE sizes(j - 1)
                       \o (IF j \in idx THEN <<Len(reqs[c][j].answer.nodes)>> ELSE <<>>)
  IN  sizes(Len(reqs[c]))

(* C1: a connection has a StackFileSystem if and only if its login request
   was answered with status 200, and then the login was resolved; any other
   status and a transport error reject the login and leave no file system. *)
C1_SessionIffLogin200 ==
  \A c \in Conns :
    /\ (fs[c] # Null) <=> (loginAnswer[c] = HttpAnswer(200))
    /\ (login[c] = "resolved") <=> (fs[c] # Null)
    /\ (loginAnswer[c].kind = "transport_error"
        \/ (loginAnswer[c].kind = "http" /\ loginAnswer[c].statusCode # 200))
       => (login[c] = "rejected" /\ fs[c] = Null)
    /\ (fs[c] # Null /\ last[c].op = "create") =>
         /\ last[c].outcome = "ok"
         /\ fs[c].baseUrl = BaseUrl(last[c].args[1])
         /\ cwd(c) = <<Slash>>

C1_Witness ==
  /\ login["c1"] = "resolved"
  /\ loginAnswer["c1"] = HttpAnswer(200)
  /\ fs["c1"] # Null
  /\ last["c1"].op = "create"
  /\ fs["c1"].baseUrl = <<"https://", "d", "/public-share/", "s", "/">>

\* The lexical resolution of target against cur: an absolute target replaces
\* cur, a relative target is appended, '.' and '..' are resolved.
LexicalResolve(cur, target) ==
  IF target # <<>> /\ target[1] = Slash
    THEN normalize(target)
    ELSE posixJoin(cur, target)

(* C2: after every chdir that returns, cwd is the lexical resolution of the
   target against the cwd the call started from (by induction: the cwd after
   a sequence of calls is the left-to-right resolution of its inputs from '/'). *)
C2_ChdirResolvesAgainstCwd ==
  \A c \in Conns :
    Ok(c, "chdir") => cwd(c) = LexicalResolve(last[c].cwd, last[c].args[1])

(* C3: read with an absolute target requests exactly the target, whatever
   the cwd is. *)
C3_ReadAbsoluteReplacesCwd ==
  \A c \in Conns :
    (Ok(c, "read") /\ last[c].args[1][1] = Slash)
      => reqs[c][1].form.paths = last[c].args[1]

(* C4: list returns the records of the pages it fetched, in fetch order and
   one StackStats per record; it goes on after every full page and stops after
   the first page shorter than 100 (pages 100, 100, 37 give 237 results and
   pages 100, 0 give 100). *)
C4_ListConcatenatesPages ==
  \A c \in Conns :
    IsList(c) /\ reqs[c] # <<>> =>
      LET sizes == PageSizes(c)
          recs  == FetchedRecords(c, Len(reqs[c]))
      IN  /\ \A j \in 1..(Len(sizes) - 1) : sizes[j] = maxFiles
          /\ last[c].outcome = "pending" => \A j \in DOMAIN sizes : sizes[j] = maxFiles
          /\ last[c].outcome = "ok" =>
               /\ sizes # <<>> => sizes[Len(sizes)] < maxFiles
               /\ Len(last[c].result) = Len(recs)
               /\ \A k \in DOMAIN recs :
                    /\ last[c].result[k].ino = recs[k].fileId
                    /\ last[c].result[k].mimetype = recs[k].mimetype
                    /\ last[c].result[k].size = recs[k].fileSize
               /\ sizes = <<100, 100, 37>> => Len(last[c].result) = 237
               /\ sizes = <<100, 0>> => Len(last[c].result) = 100

C4_Witness ==
  /\ Ok("c1", "list")
  /\ PageSizes("c1") = <<100, 100, 37>>
  /\ Len(last["c1"].result) = 237
  /\ last["c1"].result[201].ino = 201

(* C5: a list call with a failed page fetch (an error status or a transport
   error) does not return: it fails. *)
C5_ListFailsOnFailedPage ==
  \A c \in Conns :
    (IsList(c) /\ FailedIndices(c) # {}) => last[c].outcome # "ok"

\* The operations that are not implemented.
UnsupportedOps == {"delete", "mkdir", "rename", "chmod", "getUniqueName"}

(* C6: delete, mkdir, rename, chmod and getUniqueName throw, and issue no
   remote request. *)
C6_UnsupportedThrow ==
  \A c \in Conns :
    last[c].op \in UnsupportedOps =>
      /\ last[c].outcome = "error"
      /\ last[c].error \in {NotImplemented, TypeError}
      /\ reqs[c] = <<>>

C6_Witness ==
  /\ last["c1"].op = "rename"
  /\ last["c1"].outcome = "error"
  /\ last["c1"].error = NotImplemented
  /\ cwd("c1") = <<"/", "a">>

(* C7: the page requests of a list call have strictly increasing offsets
   0, 100, 200, ..., and only the last one can be unanswered. *)
C7_OffsetsStrictlyIncrease ==
  \A c \in Conns :
    IsList(c) =>
      /\ \A j \in DOMAIN reqs[c] : reqs[c][j].qs.offset = (j - 1) * maxFiles
      /\ \A j \in DOMAIN reqs[c] : reqs[c][j].answer = Pending => j = Len(reqs[c])

(* C8: a list call requests no page (directory and offset) twice, and
   requests nothing after a failure answer. *)
C8_ListNeverRetries ==
  \A c \in Conns :
    IsList(c) =>
      /\ \A j, k \in DOMAIN reqs[c] :
           (j # k) => (reqs[c][j].qs.dir # reqs[c][k].qs.dir
                       \/ reqs[c][j].qs.offset # reqs[c][k].qs.offset)
      /\ \A j \in FailedIndices(c) : j = Len(reqs[c])

(* C9: against a directory of n records whose page requests are all answered
   with records, list issues floor(n/100)+1 requests and returns: never more,
   and when n is a multiple of 100 the last request gets an empty page. *)
C9_RequestCount ==
  \A c \in Conns :
    (IsList(c) /\ reqs[c] # <<>> /\ FailedIndices(c) = {}) =>
      /\ Len(reqs[c]) <= (remote[c] \div maxFiles) + 1
      /\ last[c].outcome = "ok" =>
           /\ Len(reqs[c]) = (remote[c] \div maxFiles) + 1
           /\ Len(last[c].result) = remote[c]
           /\ remote[c] % maxFiles = 0 => reqs[c][Len(reqs[c])].answer.nodes = <<>>
      /\ (last[c].outcome = "pending" /\ reqs[c][Len(reqs[c])].answer = Pending) =>
           reqs[c][Len(reqs[c])].qs.offset <= remote[c]

C9_Witness ==
  /\ Ok("c1", "list")
  /\ remote["c1"] = 2 * maxFiles
  /\ FailedIndices("c1") = {}
  /\ Len(reqs["c1"]) = 3
  /\ reqs["c1"][3].answer.nodes = <<>>

(* C10: the directory a list call queries is the cwd that chdir would produce
   for the same target. *)
C10_ListResolvesAsChdir ==
  \A c \in Conns :
    (IsList(c) /\ reqs[c] # <<>>) =>
      \A j \in DOMAIN reqs[c] : reqs[c][j].qs.dir = chdirPath(c, last[c].args[1])


\* The request of c's transfer call failed: an answer that is not 2xx, or a
\* transport error.
TransferFailed(c) ==
  /\ reqs[c] # <<>>
  /\ \/ reqs[c][1].answer.kind = "transport_error"
     \/ reqs[c][1].answer.kind = "http"
        /\ (reqs[c][1].answer.statusCode < 200 \/ reqs[c][1].answer.statusCode >= 300)

(* C11: a download or upload whose request failed (a status that is not 2xx,
   or a transport error) is reported as an error: the stream of a failed
   download errors and hands no body to its reader, and the stream of a
   failed upload does not finish as a completed write. *)
C11_TransferFailureIsError ==
  \A c \in Conns :
    /\ (Ok(c, "read") /\ TransferFailed(c)) => last[c].result.state = "error"
    /\ (Ok(c, "write") /\ TransferFailed(c)) => last[c].result.state # "finish"


\* The session values of c that are fixed at login.
Credentials(f) == <<f.baseUrl, f.csrfToken, f.cookieJar.id>>

(* C12 as stated: once a connection has its file system, its base URL, CSRF
   token and cookie store (the cookies it holds) never change again. *)
C12_CredentialsNeverChange ==
  [][\A c \in Conns :
       fs[c] # Null =>
         /\ fs'[c] # Null
         /\ Credentials(fs'[c]) = Credentials(fs[c])
         /\ fs'[c].cookieJar = fs[c].cookieJar]_vars

\* Every request of c's call carries the base URL and the jar of c's file
\* system, and its CSRF token where the request has one.
RequestsUseSession(c) ==
  \A j \in DOMAIN reqs[c] :
    LET r == reqs[c][j]
    IN  /\ r.baseUrl = fs[c].baseUrl
        /\ r.jar = fs[c].cookieJar.id
        /\ r.url # <<"info/">>
        /\ r.method = "PUT" => r.headers.CsrfToken = fs[c].csrfToken
        /\ r.url = <<"download">> => r.form.CsrfToken = fs[c].csrfToken

(* C12 amended: the base URL, the CSRF token and the cookie jar (the object)
   of a file system never change and no operation logs in again; every later
   request uses them; the cookies the jar holds change only in a step that
   records an HTTP answer to a request of the same connection. *)
C12_CredentialsAmended ==
  /\ [](\A c \in Conns :
          (fs[c] # Null /\ last[c].op # "create") => RequestsUseSession(c))
  /\ [][\A c \in Conns :
          fs[c] # Null =>
            /\ fs'[c] # Null
            /\ Credentials(fs'[c]) = Credentials(fs[c])
            /\ login'[c] = "resolved" /\ loginAnswer'[c] = loginAnswer[c]
            /\ fs'[c].cookieJar # fs[c].cookieJar =>
                 /\ reqs[c] # <<>> /\ reqs[c][Len(reqs[c])].answer = Pending
                 /\ Len(reqs'[c]) >= Len(reqs[c])
                 /\ reqs'[c][Len(reqs[c])].answer.kind = "http"]_vars

C12_Witness ==
  /\ Ok("c1", "list")
  /\ Len(reqs["c1"]) = 2
  /\ fs["c1"].cookieJar.cookies = {[key |-> "sid", value |-> "v3"]}
  /\ fs["c1"].csrfToken = "tok1"
  /\ fs["c1"].baseUrl = <<"https://", "d", "/public-share/", "s", "/">>

(* C13: the cwd of a file system is '/' right after login and always begins
   with '/' and has no '.' or '..' segment. *)
C13_CwdAbsoluteNormalized ==
  \A c \in Conns :
    fs[c] # Null =>
      LET w == fs[c].workingDir
      IN  /\ w # <<>>
          /\ w[1] = Slash
          /\ \A j \in DOMAIN Segments(w) :
               Segments(w)[j] # <<".">> /\ Segments(w)[j] # <<".", ".">>
          /\ last[c].op = "create" => w = <<"/">>

C13_Witness ==
  /\ Ok("c1", "chdir")
  /\ last["c1"].cwd = <<"/", "a">>
  /\ last["c1"].args = << <<".", "/", ".", ".">> >>
  /\ fs["c1"].workingDir = <<"/">>

(* C14: list, read, write, currentDirectory, get and the unsupported
   operations leave cwd as it was when they were called, whether they return or
   throw, and so does a chdir that throws; after a call that failed the
   connection is ready for the next call. *)
C14_OnlyChdirChangesCwd ==
  \A c \in Conns :
    fs[c] # Null =>
      /\ (last[c].op \notin {"create", "chdir"}) => fs[c].workingDir = last[c].cwd
      /\ (last[c].op = "chdir" /\ last[c].outcome = "error") =>
           fs[c].workingDir = last[c].cwd
      /\ last[c].outcome = "error" => Ready(c)

C14_Witness ==
  /\ last["c1"].op = "list"
  /\ last["c1"].outcome = "error"
  /\ Len(reqs["c1"]) = 2
  /\ reqs["c1"][2].answer = TransportError
  /\ last["c1"].cwd = <<"/", "a">>
  /\ fs["c1"].workingDir = <<"/", "a">>
  /\ Ready("c1")

(* C16: chdir and currentDirectory issue no remote request; currentDirectory
   returns cwd, and chdir succeeds for every string target, with nothing asked
   of the remote API about it. *)
C16_NavigationIsLocal ==
  \A c \in Conns :
    /\ last[c].op \in {"chdir", "currentDirectory"} => reqs[c] = <<>> /\ pc[c] = "idle"
    /\ last[c].op = "currentDirectory" =>
         last[c].outcome = "ok" /\ last[c].result = fs[c].workingDir
    /\ (last[c].op = "chdir" /\ last[c].args[1] # Undefined) =>
         last[c].outcome = "ok" /\ last[c].result = fs[c].workingDir

C16_Witness ==
  /\ Ok("c1", "chdir")
  /\ last["c1"].args = << <<"/", "a", "/", "b", ".", "t", "x", "t">> >>
  /\ fs["c1"].workingDir = <<"/", "a", "/", "b", ".", "t", "x", "t">>
  /\ reqs["c1"] = <<>>

(* C17: for every record a listing returned, isDirectory of its StackStats is
   true exactly when the record's mimetype is "httpd/unix-directory", isFile
   is the opposite, and the symlink, device, socket and FIFO predicates are
   false. *)
C17_AdapterPredicates ==
  \A c \in Conns :
    Ok(c, "list") =>
      LET recs == FetchedRecords(c, Len(reqs[c]))
      IN  \A k \in DOMAIN last[c].result :
            LET st == last[c].result[k]
            IN  /\ isDirectory(st) = (recs[k].mimetype = "httpd/unix-directory")
                /\ isFile(st) = (recs[k].mimetype # "httpd/unix-directory")
                /\ ~isSymbolicLink(st) /\ ~isBlockDevice(st) /\ ~isCharacterDevice(st)
                /\ ~isSocket(st) /\ ~isFIFO(st)

C17_Witness ==
  /\ Ok("c1", "list")
  /\ Len(last["c1"].result) = 37
  /\ isDirectory(last["c1"].result[2])
  /\ last["c1"].result[3].mimetype = "inode/directory"
  /\ isFile(last["c1"].result[3])
  /\ ~isDirectory(last["c1"].result[5])

(* C18: list called without a target lists the cwd: it requests its pages
   with dir = cwd and does not fail. *)
C18_ListWithoutTarget ==
  \A c \in Conns :
    (IsList(c) /\ last[c].args[1] = Undefined) =>
      /\ last[c].outcome # "error" \/ FailedIndices(c) # {}
      /\ reqs[c] # <<>>
      /\ reqs[c][1].qs.dir = last[c].cwd

(* C19: get issues no remote request and changes nothing of the file system,
   and for every name and every cwd it returns a result whose isDirectory()
   is true. *)
C19_GetIsLocalDirectory ==
  /\ [](\A c \in Conns :
          last[c].op = "get" =>
            /\ last[c].outcome = "ok"
            /\ last[c].result.isDirectory = TRUE
            /\ reqs[c] = <<>>
            /\ pc[c] = "idle")
  /\ [][\A c \in Conns :
          (last'[c].op = "get" /\ last'[c] # last[c]) => fs'[c] = fs[c]]_vars

C19_Witness ==
  /\ Ok("c1", "get")
  /\ last["c1"].cwd = <<"/", "a">>
  /\ last["c1"].args = << <<"/", "a", "/", "b", ".", "t", "x", "t">> >>
  /\ last["c1"].result.isDirectory
  /\ fs["c1"].workingDir = <<"/", "a">>


\* All the state that belongs to connection c.
View(c) == <<login[c], loginAnswer[c], fs[c], pc[c], frame[c], remote[c], reqs[c], last[c]>>

(* C15: each connection has its own session: a step of one connection changes
   nothing of another connection (cwd, base URL, token, cookies, calls), the
   cookie jars of two file systems are different jars, and the requests of a
   connection carry its own base URL, token and jar. *)
C15_SessionsAreIsolated ==
  /\ [](\A c \in Conns :
          /\ (fs[c] # Null /\ last[c].op # "create") => RequestsUseSession(c)
          /\ \A d \in Conns \ {c} :
               (fs[c] # Null /\ fs[d] # Null) => fs[c].cookieJar.id # fs[d].cookieJar.id)
  /\ [][\A c \in Conns : \A d \in Conns \ {c} :
          View(c)' # View(c) => View(d)' = View(d)]_vars

C15_Witness ==
  /\ fs["c1"] # Null /\ fs["c2"] # Null
  /\ fs["c1"].baseUrl = <<"https://", "d", "/public-share/", "s", "/">>
  /\ fs["c2"].baseUrl = <<"https://", "d", ".", "e", "/public-share/", "t", "/">>
  /\ fs["c1"].workingDir = <<"/", "a">>
  /\ fs["c2"].workingDir = <<"/">>
  /\ fs["c1"].csrfToken = "tok1" /\ fs["c2"].csrfToken = "tok2"
  /\ fs["c1"].cookieJar.cookies = {[key |-> "sid", value |-> "v1"]}
  /\ fs["c2"].cookieJar.cookies = {[key |-> "sid", value |-> "v3"]}
  /\ Ok("c1", "chdir") /\ Ok("c2", "list")
  /\ reqs["c2"][1].baseUrl = fs["c2"].baseUrl /\ reqs["c2"][1].jar = "c2"

====
